---- MODULE Spec2Model ----
(***************************************************************************)
(* Ostrom for Homey: the server-side rate limited, authenticated client    *)
(* (server/src/lib/client) and the Homey device that backfills and tops up *)
(* the cumulative energy meter and refreshes prices on a timer             *)
(* (drivers/home/device.ts).                                               *)
(*                                                                         *)
(* Four specifications share this module:                                  *)
(*   SpecLimiter     the RateLimiter alone, wrapping opaque operations,    *)
(*                   each refill window split in an early and a late half; *)
(*   SpecServer      OstromClient + OstromAuthenticator on one RateLimiter;*)
(*   SpecDevice      OstromHomeDevice and OstromServerClient;              *)
(*   SpecDeviceLive  SpecDevice with timers that fire and calls that       *)
(*                   answer.                                               *)
(***************************************************************************)
EXTENDS Integers, Sequences, FiniteSets, TLC

(***************************************************************************)
(* Bounds of the model                                                     *)
(***************************************************************************)
\* jobs that may wait in the limiter's queue at one time
MaxQueue == 2
\* operations of the client in progress at one time (queued, waiting for a
\* token exchange, or with a request in flight)
MaxOutstanding == 2
\* the authenticator's clock runs over 0..MaxClock
MaxClock == 2
\* the token lifetimes (expires_in) the auth server may declare: 0..MaxLifetime
MaxLifetime == 1

\* the device's clock runs over the hours 0..MaxHour
MaxHour == 3
\* hours in one year on the model's time scale (luxon: plus({ years: 1 }))
YearLen == 2
\* the upstream reports 0..MaxDelta kWh for an hour
MaxDelta == 1
\* timer callbacks that may execute at one time
MaxCycles == 2

\* getEnergyConsumption on its own: startDate and endDate range over 0..MaxInstant
MaxInstant == 6

\* scheduleNextUpdate on its own: it is entered 1..MaxLead tenths of a
\* second before the next top of the hour
MaxLead == 25

\* Prices on its own: series of up to MaxLen hourly points, method arguments
\* hours, n in 0..MaxN, and numbers with MantissaBits significant bits
MaxLen == 3
MaxN == 3
MantissaBits == 3

\* the comparisons with the average on their own: prices in
\* -MaxPrice..MaxPrice, percentages 0, 25, .. 25 * MaxQuarter
MaxPrice == 8
MaxQuarter == 3

(***************************************************************************)
(* Program constants                                                       *)
(***************************************************************************)
MAX_REQUESTS_PER_MINUTE == 50

\* Bottleneck options of the RateLimiter
reservoirRefreshAmount == MAX_REQUESTS_PER_MINUTE

\* tokenExpiresAt: number|null = null
NoExpiry == -1

\* lastFetchedHour: DateTime|null = null
NoHour == -1

\* DateTime.fromISO(contract.startDate).startOf('day'), the origin of the hours
ContractStart == 0

\* isPriceAtLowest / isPriceAtHighest: 0.001, prices being counted in 0.0001
Epsilon == 10

\* OstromHomeDevice.MIN_JITTER, OstromHomeDevice.MAX_JITTER (seconds)
MIN_JITTER == 0
MAX_JITTER == 30

VARIABLES
    \* ---- RateLimiter (Bottleneck) ----
    reservoir,          \* jobs that may still begin before the next refresh
    queue,              \* jobs waiting for the reservoir, FIFO, by kind
    startedInWindow,    \* history: jobs begun since the last refresh
    \* ---- SpecLimiter: position inside the refill window ----
    latePhase,          \* FALSE in the first half of the window, TRUE in the second
    earlyStarts,        \* history: jobs begun in the first half of this window
    prevLate,           \* history: jobs begun in the second half of the previous window
    \* ---- OstromAuthenticator / OstromClient ----
    token,              \* TRUE when a token is cached (this.token !== null)
    tokenExpiresAt,     \* NoExpiry or the clock value at which the token expires
    clock,              \* Math.floor(Date.now() / 1000)
    authInFlight,       \* token exchanges whose POST /oauth2/token awaits its response
    dataInFlight,       \* data requests awaiting their response
    httpInWindow,       \* history: upstream HTTP requests issued since the last refresh
    tokenGrant,         \* history: the exchange this.token comes from
    expiryGrant,        \* history: the exchange this.tokenExpiresAt comes from
    serverEvent,        \* the upstream answer handled by the latest step, if any
    \* ---- upstream consumption data and the wall clock ----
    now,                \* DateTime.now().startOf('hour')
    usage,              \* the kWh the upstream reports for each hour
    endInclusive,       \* TRUE when the upstream includes the hour of endDate
    \* ---- OstromHomeDevice ----
    meter,              \* capability meter_power (0 while never set)
    lastFetchedHour,    \* NoHour or the hour of the last folded point
    scheduledUpdate,    \* the timer handle: "null", "pending", "fired", "cleared"
    orphanTimers,       \* pending timers whose handle has been overwritten
    onInitPc,           \* position of onInit
    initCall,           \* getEnergyConsumption call of the backfill
    cycles,             \* the executing timer callbacks, by slot
    deleted,            \* onDeleted has run
    published,          \* capabilities <<price_current, price_highest, price_lowest>>
    dispatched,         \* triggers dispatched by the latest pricing update
    \* ---- history variables ----
    folded,             \* how many times each hour has been added to the meter
    lastTopup,          \* outcome of the latest incremental top-up
    topupsThisHour,     \* top-ups begun and finished in the current hour (up to 2)
    foldsThisHour,      \* those of them that wrote the meter (up to 2)
    lastTopupFolded,    \* whether the latest of them wrote the meter
    caughtUp,           \* one of them folded in a result reaching the end of its range
    deletedDuring,      \* what was going on when onDeleted ran
    pricingEvent,       \* the getPrices or backfill answer handled by the latest step
    \* ---- functions examined on their own ----
    chunkCall,          \* getEnergyConsumption: the call in progress
    chunkLog,           \* getEnergyConsumption: the ranges requested so far
    timerCalc,          \* scheduleNextUpdate: the instant of arming and the delay
    thisPrices,         \* Prices: the constructor's argument and the instance's fields
    evaluated,          \* Prices: the latest method applied and what it gave
    compared,           \* isPriceBelowAverage / isPriceAboveAverage: arguments and result
    conditionContext    \* getConditionContext(): currentPrices and currentPrice

limiterVars == <<reservoir, queue, startedInWindow>>
phaseVars == <<latePhase, earlyStarts, prevLate>>
grantVars == <<tokenGrant, expiryGrant>>
clientVars == <<token, tokenExpiresAt, clock, authInFlight, dataInFlight, httpInWindow,
                grantVars, serverEvent>>
serverVars == <<limiterVars, phaseVars, clientVars>>

upstreamVars == <<now, usage, endInclusive>>
homeVars == <<meter, lastFetchedHour, scheduledUpdate, orphanTimers, onInitPc,
              initCall, cycles, deleted, published, dispatched>>
historyVars == <<folded, lastTopup, topupsThisHour, foldsThisHour, lastTopupFolded,
                 caughtUp, deletedDuring>>
deviceVars == <<upstreamVars, homeVars, historyVars, pricingEvent>>

pureVars == <<chunkCall, chunkLog, timerCalc, thisPrices, evaluated, compared,
              conditionContext>>

vars == <<serverVars, deviceVars, pureVars>>


(***************************************************************************)
(* Values shared by the device and its client                              *)
(***************************************************************************)
Hours == 0..MaxHour

Min(a, b) == IF a < b THEN a ELSE b

Abs(x) == IF x < 0 THEN -x ELSE x

\* a getEnergyConsumption call: its arguments, the chunk loop's currentStart
\* and allConsumption, and whether the span is longer than one year
NoCall == [start |-> 0, end |-> 0, cur |-> 0, all |-> <<>>, multi |-> FALSE]

\* a slot for the callback of the update timer
IdleCycle == [phase |-> "idle", currentValue |-> 0, call |-> NoCall,
              startHour |-> 0, stale |-> FALSE]

\* the latest step was not the continuation of a call to the server
NoEvent == [kind |-> "none", body |-> <<>>, answer |-> "none"]

\* getEnergyConsumption has not been entered
NoChunkCall == [status |-> "idle", call |-> NoCall]

\* scheduleNextUpdate has not been entered
NoTimer == [phase |-> "none", lead |-> 0, jitter |-> 0, seconds |-> 0]

\* no method of Prices has been applied
NoEvaluation ==
    [op |-> "none", at |-> 0, n |-> 0, to |-> 0, ok |-> TRUE, result |-> <<>>,
     average |-> 0, lowest |-> 0, highest |-> 0, holds |-> FALSE]

\* Prices: _lowest, _highest, _average before their first use
Null == -1

\* no Prices instance: built is "no" before the constructor ran, "yes" when
\* it returned and "threw" when it threw
\* currentPrice before its first assignment
NoPoint == [date |-> NoHour, netPrice |-> 0]

\* currentPrices and currentPrice before their first assignment
NoContext == [currentPrices |-> <<>>, currentPrice |-> NoPoint]

\* neither comparison with the average has been evaluated
NoComparison ==
    [op |-> "none", currentPrice |-> 0, averagePrice |-> 0, percentage |-> 0, holds |-> FALSE]

NoInstance ==
    [prices |-> <<>>, array |-> TRUE, built |-> "no",
     _lowest |-> Null, _highest |-> Null, _average |-> Null]

\* no exchange has stored anything yet
NoGrant == [at |-> -1, expires_in |-> -1]

\* the latest step was not the continuation of an upstream request
NoServerEvent == [kind |-> "none", payload |-> "", thrown |-> <<>>, replaced |-> FALSE]

\* the error documents of non-success responses of the data endpoints
ErrorPayloads == {"unauthorized", "unavailable"}

(***************************************************************************)
(* RateLimiter: new Bottleneck({reservoir, reservoirRefreshAmount,         *)
(* reservoirRefreshInterval}).  No maxConcurrent, no minTime: a job begins *)
(* as soon as the reservoir is not zero, and beginning takes one unit.     *)
(***************************************************************************)
HasCapacity_m(r) == r >= 0

\* Bottleneck runs a job only while the reservoir is above zero
HasCapacity(r) == r > 0

RefreshedReservoir_m(r) == 0

\* every reservoirRefreshInterval the reservoir is SET to reservoirRefreshAmount
RefreshedReservoir(r) == reservoirRefreshAmount

\* a queued job can begin now; Bottleneck drains before anything else happens
DrainPending == queue /= <<>> /\ HasCapacity(reservoir)

InitLimiter ==
    /\ reservoir = MAX_REQUESTS_PER_MINUTE
    /\ queue = <<>>
    /\ startedInWindow = 0

InitPhase ==
    /\ latePhase = FALSE
    /\ earlyStarts = 0
    /\ prevLate = 0

InitClient ==
    /\ token = FALSE
    /\ tokenExpiresAt = NoExpiry
    /\ clock = 0
    /\ authInFlight = 0
    /\ dataInFlight = 0
    /\ httpInWindow = 0
    /\ tokenGrant = NoGrant
    /\ expiryGrant = NoGrant
    /\ serverEvent = NoServerEvent

InitServer == InitLimiter /\ InitPhase /\ InitClient

\* the state of a device after construction, before onInit has run
InitHome ==
    /\ now = 0
    /\ meter = 0
    /\ lastFetchedHour = NoHour
    /\ scheduledUpdate = "null"
    /\ orphanTimers = 0
    /\ onInitPc = "start"
    /\ initCall = NoCall
    /\ cycles = [c \in 1..MaxCycles |-> IdleCycle]
    /\ deleted = FALSE
    /\ published = <<>>
    /\ dispatched = <<>>
    /\ folded = [h \in Hours |-> 0]
    /\ lastTopup = "none"
    /\ topupsThisHour = 0
    /\ foldsThisHour = 0
    /\ lastTopupFolded = FALSE
    /\ caughtUp = FALSE
    /\ deletedDuring = "none"
    /\ pricingEvent = NoEvent

\* the upstream's hourly consumption (a profile of deltas 0..MaxDelta, zero
\* included) and its reading of endDate
InitUpstream ==
    /\ usage \in {[h \in Hours |-> (h + k) % (MaxDelta + 1)] : k \in 0..MaxDelta}
    /\ endInclusive \in BOOLEAN

\* the server specifications leave the device alone
InitNoDevice ==
    /\ usage = [h \in Hours |-> 0]
    /\ endInclusive = FALSE
    /\ InitHome

\* nothing is being examined on its own
InitNoPure ==
    /\ chunkCall = NoChunkCall
    /\ chunkLog = <<>>
    /\ timerCalc = NoTimer
    /\ thisPrices = NoInstance
    /\ evaluated = NoEvaluation
    /\ compared = NoComparison
    /\ conditionContext = NoContext

Init == InitServer /\ InitNoDevice /\ InitNoPure

InitDevice == InitServer /\ InitUpstream /\ InitHome /\ InitNoPure

(***************************************************************************)
(* SpecLimiter: wrap(fn)(...) for opaque operations fn                     *)
(***************************************************************************)
\* the wrapped operation begins executing
BeginOp(q) ==
    /\ reservoir' = reservoir - 1
    /\ startedInWindow' = startedInWindow + 1
    /\ queue' = q

\* a caller invokes a wrapped operation: it begins at once when the reservoir
\* allows it and nothing is queued before it, otherwise it is queued
LSubmit ==
    /\ ~DrainPending
    /\ Len(queue) < MaxQueue
    /\ IF HasCapacity(reservoir) /\ queue = <<>>
       THEN BeginOp(queue)
       ELSE queue' = Append(queue, "op") /\ UNCHANGED <<reservoir, startedInWindow>>
    /\ UNCHANGED <<pureVars, deviceVars, phaseVars, clientVars>>

\* the head of the queue begins once the reservoir allows it
LDrain ==
    /\ DrainPending
    /\ BeginOp(Tail(queue))
    /\ UNCHANGED <<pureVars, deviceVars, phaseVars, clientVars>>

\* half of reservoirRefreshInterval has passed since the last refresh
LHalfWindow ==
    /\ ~DrainPending
    /\ ~latePhase
    /\ latePhase' = TRUE
    /\ earlyStarts' = startedInWindow
    /\ UNCHANGED <<pureVars, deviceVars, limiterVars, prevLate, clientVars>>

\* reservoirRefreshInterval has passed: the reservoir is refreshed
LRefresh ==
    /\ ~DrainPending
    /\ latePhase
    /\ reservoir' = RefreshedReservoir(reservoir)
    /\ startedInWindow' = 0
    /\ latePhase' = FALSE
    /\ prevLate' = startedInWindow - earlyStarts
    /\ earlyStarts' = 0
    /\ UNCHANGED <<pureVars, deviceVars, queue, clientVars>>

LimiterNext == LSubmit \/ LDrain \/ LHalfWindow \/ LRefresh

SpecLimiter == Init /\ [][LimiterNext]_vars

\* Jobs begun within the latest interval of one refill length made of two
\* consecutive half windows: the current window when in its late half, the
\* late half of the previous window plus the early half of this one otherwise.
SlidingStarts == IF latePhase THEN startedInWindow ELSE prevLate + startedInWindow

\* C1: in every refill window at most MAX_REQUESTS_PER_MINUTE wrapped
\* operations begin executing; further submissions wait in the queue.
C1_WindowBound == startedInWindow <= MAX_REQUESTS_PER_MINUTE

\* K operations have begun in this window and a further submission waits
C1_Witness ==
    /\ startedInWindow = MAX_REQUESTS_PER_MINUTE
    /\ reservoir = 0
    /\ queue /= <<>>

\* C3 (as stated): at most K operations begin within any interval of one
\* refill length, whatever its start instant.
C3_SlidingBound == SlidingStarts <= MAX_REQUESTS_PER_MINUTE

\* C3 (amended): an interval of one refill length that is not aligned with a
\* window overlaps two windows, and at most 2K operations begin within it.
C3_SlidingTwice == SlidingStarts <= 2 * MAX_REQUESTS_PER_MINUTE

\* an interval across a refresh in which more than K operations have begun
C3_Witness ==
    /\ ~latePhase
    /\ prevLate > 0
    /\ SlidingStarts > MAX_REQUESTS_PER_MINUTE

(***************************************************************************)
(* SpecServer: OstromClient and OstromAuthenticator on one RateLimiter.    *)
(* Every public operation is rateLimiter.wrap(_op)(...); _op awaits        *)
(* withAuthCheck, which awaits authenticateIfNeeded and then issues the    *)
(* data request; authenticate() is rateLimiter.wrap(_authenticate)(...).   *)
(***************************************************************************)
NeedsAuthentication_tokenOnly(tok, expiresAt, t) == ~tok

NeedsAuthentication_m(tok, expiresAt, t) == ~tok \/ t >= expiresAt

\* authenticateIfNeeded: !this.token || now > this.tokenExpiresAt
NeedsAuthentication(tok, expiresAt, t) == ~tok \/ t > expiresAt

ExpiresAt_m(t, expires_in) == expires_in

\* this.tokenExpiresAt = this.getNowAsTimestamp() + token.expires_in
ExpiresAt(t, expires_in) == t + expires_in

CredentialAfterReject_m(tok, expiresAt) == <<FALSE, NoExpiry>>

\* if (error) throw ...: _authenticate throws before it assigns the fields
CredentialAfterReject(tok, expiresAt) == <<tok, expiresAt>>

ThrownError_m(payload) == <<"Failed", "">>

\* throw new Error('Failed to ...: ' + JSON.stringify(error))
ThrownError(payload) == <<"Failed", payload>>

\* token exchanges waiting in the limiter's queue
QueuedAuth(q) == Cardinality({i \in 1..Len(q) : q[i] = "auth"})

\* operations in progress: queued data operations, data operations waiting
\* for their token exchange (one per exchange queued or in flight), requests
Outstanding == Len(queue) + authInFlight + dataInFlight

BeginAuthenticate_m(r, q) ==
    /\ reservoir' = r
    /\ queue' = q
    /\ authInFlight' = authInFlight + 1
    /\ UNCHANGED dataInFlight

\* _authenticate begins: POST /oauth2/token is issued
BeginAuthenticate(r, q) ==
    /\ reservoir' = r - 1
    /\ queue' = q
    /\ authInFlight' = authInFlight + 1
    /\ UNCHANGED dataInFlight

BeginData_m(r, q) ==
    /\ serverEvent' = [NoServerEvent EXCEPT !.kind = "dataBegan"]
    /\ IF NeedsAuthentication(token, tokenExpiresAt, clock)
       THEN IF q = <<>> /\ HasCapacity(r - 1)
            THEN /\ BeginAuthenticate(r - 1, q)
                 /\ startedInWindow' = startedInWindow + 2
                 /\ httpInWindow' = httpInWindow + 1
            ELSE /\ reservoir' = r - 1
                 /\ queue' = <<"auth">> \o q
                 /\ startedInWindow' = startedInWindow + 1
                 /\ UNCHANGED <<authInFlight, dataInFlight, httpInWindow>>
       ELSE /\ reservoir' = r - 1
            /\ queue' = q
            /\ startedInWindow' = startedInWindow + 1
            /\ dataInFlight' = dataInFlight + 1
            /\ httpInWindow' = httpInWindow + 1
            /\ UNCHANGED authInFlight

\* a data operation begins with r in the reservoir and q left in the queue:
\* it takes one unit, then either issues its request (token fresh) or calls
\* authenticate(), which is scheduled on the same limiter and awaited
BeginData(r, q) ==
    /\ serverEvent' = [NoServerEvent EXCEPT !.kind = "dataBegan"]
    /\ IF NeedsAuthentication(token, tokenExpiresAt, clock)
       THEN IF q = <<>> /\ HasCapacity(r - 1)
            THEN /\ BeginAuthenticate(r - 1, q)
                 /\ startedInWindow' = startedInWindow + 2
                 /\ httpInWindow' = httpInWindow + 1
            ELSE /\ reservoir' = r - 1
                 /\ queue' = Append(q, "auth")
                 /\ startedInWindow' = startedInWindow + 1
                 /\ UNCHANGED <<authInFlight, dataInFlight, httpInWindow>>
       ELSE /\ reservoir' = r - 1
            /\ queue' = q
            /\ startedInWindow' = startedInWindow + 1
            /\ dataInFlight' = dataInFlight + 1
            /\ httpInWindow' = httpInWindow + 1
            /\ UNCHANGED authInFlight

\* createAccountLink / retrieveSmartMeterConsumption / retrieveContracts /
\* retrieveSpotPrices: the wrapped operation is handed to the limiter
SubmitData ==
    /\ ~DrainPending
    /\ Outstanding < MaxOutstanding
    /\ Len(queue) < MaxQueue
    /\ IF HasCapacity(reservoir) /\ queue = <<>>
       THEN BeginData(reservoir, queue)
       ELSE /\ queue' = Append(queue, "data")
            /\ serverEvent' = NoServerEvent
            /\ UNCHANGED <<reservoir, startedInWindow, authInFlight, dataInFlight, httpInWindow>>
    /\ UNCHANGED <<pureVars, deviceVars, phaseVars, token, tokenExpiresAt, clock, grantVars>>

\* the head of the queue begins once the reservoir allows it
Drain ==
    /\ DrainPending
    /\ IF Head(queue) = "data"
       THEN BeginData(reservoir, Tail(queue))
       ELSE /\ BeginAuthenticate(reservoir, Tail(queue))
            /\ startedInWindow' = startedInWindow + 1
            /\ httpInWindow' = httpInWindow + 1
            /\ serverEvent' = NoServerEvent
    /\ UNCHANGED <<pureVars, deviceVars, phaseVars, token, tokenExpiresAt, clock, grantVars>>

\* the token exchange answers.  Success: _authenticate stores the token and
\* its expiry, authenticateIfNeeded returns and withAuthCheck issues the data
\* request of the operation that awaited it.  Error: the operation throws.
AuthResponse ==
    /\ ~DrainPending
    /\ authInFlight > 0
    /\ \E ok \in BOOLEAN, expires_in \in 0..MaxLifetime :
        IF ok
        THEN /\ tokenExpiresAt' = ExpiresAt(clock, expires_in)
             /\ token' = TRUE
             /\ authInFlight' = authInFlight - 1
             /\ dataInFlight' = dataInFlight + 1
             /\ httpInWindow' = httpInWindow + 1
             /\ expiryGrant' = [at |-> clock, expires_in |-> expires_in]
             /\ tokenGrant' = [at |-> clock, expires_in |-> expires_in]
             /\ serverEvent' = [NoServerEvent EXCEPT
                                  !.kind = "exchangeOk",
                                  !.replaced = token /\ clock <= tokenExpiresAt]
        ELSE /\ authInFlight' = authInFlight - 1
             /\ token' = CredentialAfterReject(token, tokenExpiresAt)[1]
             /\ tokenExpiresAt' = CredentialAfterReject(token, tokenExpiresAt)[2]
             /\ serverEvent' = [NoServerEvent EXCEPT !.kind = "exchangeRejected"]
             /\ UNCHANGED <<dataInFlight, httpInWindow, grantVars>>
    /\ UNCHANGED <<pureVars, deviceVars, limiterVars, phaseVars, clock>>

\* a data request answers: with data, and the operation returns it, or with
\* a non-success response, and the operation throws an Error made from it
DataResponse ==
    /\ ~DrainPending
    /\ dataInFlight > 0
    /\ dataInFlight' = dataInFlight - 1
    /\ \/ serverEvent' = [NoServerEvent EXCEPT !.kind = "dataReturned"]
       \/ \E error \in ErrorPayloads :
            serverEvent' = [NoServerEvent EXCEPT !.kind = "dataThrew",
                                                 !.payload = error,
                                                 !.thrown = ThrownError(error)]
    /\ UNCHANGED <<pureVars, deviceVars, limiterVars, phaseVars, token, tokenExpiresAt, clock,
                   authInFlight, httpInWindow, grantVars>>

\* reservoirRefreshInterval has passed: the reservoir is refreshed
Refresh ==
    /\ ~DrainPending
    /\ reservoir' = RefreshedReservoir(reservoir)
    /\ startedInWindow' = 0
    /\ httpInWindow' = 0
    /\ serverEvent' = NoServerEvent
    /\ UNCHANGED <<pureVars, deviceVars, queue, phaseVars, token, tokenExpiresAt, clock, authInFlight,
                   dataInFlight, grantVars>>

\* a second passes on the authenticator's clock
ClockTick ==
    /\ ~DrainPending
    /\ clock < MaxClock
    /\ clock' = clock + 1
    /\ serverEvent' = NoServerEvent
    /\ UNCHANGED <<pureVars, deviceVars, limiterVars, phaseVars, token, tokenExpiresAt, authInFlight,
                   dataInFlight, httpInWindow, grantVars>>

ServerNext == SubmitData \/ Drain \/ AuthResponse \/ DataResponse \/ Refresh \/ ClockTick

SpecServer == Init /\ [][ServerNext]_vars

\* C2: the upstream HTTP requests issued (token exchanges plus data
\* requests) within one refill window never exceed MAX_REQUESTS_PER_MINUTE.
C2_HttpBound == httpInWindow <= MAX_REQUESTS_PER_MINUTE

(***************************************************************************)
(* OstromServerClient.getEnergyConsumption and the upstream behind it      *)
(***************************************************************************)
\* the last hour the upstream serves for a range ending at endDate
LastServedHour(endDate) == IF endInclusive THEN endDate ELSE endDate - 1

\* the points whose hour lies in [a, b], or in [a, b) when the upstream
\* excludes the hour of endDate; ascending
UpstreamPoints(a, b) ==
    LET n == LastServedHour(b) - a + 1
    IN  IF n <= 0 THEN <<>>
        ELSE [i \in 1..n |-> [date |-> a + i - 1, kWh |-> usage[a + i - 1]]]

\* what a chunk request may bring back: fetch or response.json() throws, an
\* error document that is not an array, an empty array (nothing recorded
\* yet), or the points of the requested range
ResponseKinds == {"throw", "nonarray", "none", "points"}

\* endDate.diff(startDate, 'years').years <= 1
WithinOneYear(startDate, endDate) == endDate - startDate <= YearLen

\* getEnergyConsumption is entered: one request, or the first yearly chunk
NewCall(startDate, endDate) ==
    [start |-> startDate, end |-> endDate, cur |-> startDate, all |-> <<>>,
     multi |-> ~WithinOneYear(startDate, endDate)]

ChunkEnd_m(currentStart, endDate) == currentStart + YearLen

\* DateTime.min(currentStart.plus({ years: 1 }), endDate)
ChunkEnd(currentStart, endDate) == Min(currentStart + YearLen, endDate)

\* the range of the request now in flight for call c
RequestRange(c) ==
    IF c.multi THEN <<c.cur, ChunkEnd(c.cur, c.end)>> ELSE <<c.start, c.end>>

ResponseBody(c, kind) ==
    IF kind = "points"
    THEN UpstreamPoints(RequestRange(c)[1], RequestRange(c)[2])
    ELSE <<>>

\* the next chunk starts where this one ended
NextChunkStart(currentEnd) == currentEnd

CallStep_m(c, kind) ==
    IF kind = "throw"
    THEN [status |-> "array", call |-> c, result |-> c.all]
    ELSE IF ~c.multi
    THEN IF kind = "nonarray"
         THEN [status |-> "nonarray", call |-> c, result |-> <<>>]
         ELSE [status |-> "array", call |-> c, result |-> ResponseBody(c, kind)]
    ELSE IF kind = "nonarray"
    THEN [status |-> "array", call |-> c, result |-> c.all]
    ELSE LET all2 == c.all \o ResponseBody(c, kind)
             cur2 == NextChunkStart(ChunkEnd(c.cur, c.end))
             c2 == [c EXCEPT !.all = all2, !.cur = cur2]
         IN  IF cur2 < c.end
             THEN [status |-> "more", call |-> c2, result |-> <<>>]
             ELSE [status |-> "array", call |-> c2, result |-> all2]

\* The request in flight for call c answers with kind.  status is "more"
\* (the loop issues the next chunk), "array" (the call returns result),
\* "nonarray" (the call returns the error document) or "throw".
CallStep(c, kind) ==
    IF kind = "throw"
    THEN [status |-> "throw", call |-> c, result |-> <<>>]
    ELSE IF ~c.multi
    THEN IF kind = "nonarray"
         THEN [status |-> "nonarray", call |-> c, result |-> <<>>]
         ELSE [status |-> "array", call |-> c, result |-> ResponseBody(c, kind)]
    ELSE IF kind = "nonarray"
    \* allConsumption.push(...chunkConsumption) throws on a non-iterable
    THEN [status |-> "throw", call |-> c, result |-> <<>>]
    ELSE LET all2 == c.all \o ResponseBody(c, kind)
             cur2 == NextChunkStart(ChunkEnd(c.cur, c.end))
             c2 == [c EXCEPT !.all = all2, !.cur = cur2]
         IN  IF cur2 < c.end
             THEN [status |-> "more", call |-> c2, result |-> <<>>]
             ELSE [status |-> "array", call |-> c2, result |-> all2]

\* points.reduce((acc, consumption) => acc + consumption.kWh, 0)
RECURSIVE SumKwh(_)
SumKwh(points) ==
    IF points = <<>> THEN 0 ELSE points[1].kWh + SumKwh(Tail(points))

\* history: the hours of points are added to the meter once more each
FoldedAfter(f, points) ==
    [h \in Hours |-> f[h] + Cardinality({i \in 1..Len(points) : points[i].date = h})]

(***************************************************************************)
(* Prices of today, in units of 0.0001                                     *)
(***************************************************************************)
PricePoint(h, p) == [date |-> h, netPrice |-> p]

\* what getPrices may bring back at hour h: "throw" (fetch throws, or the
\* body is no array) or a series: empty, without the current hour, or with
\* it: as the lowest, as the highest, less than 0.001 above the lowest,
\* more than 0.001 above the lowest, less than 0.001 below the highest
PriceBodies(h) ==
    { <<>>,
      <<PricePoint(h + 1, 20040)>>,
      <<PricePoint(h, 10040), PricePoint(h + 1, 20040)>>,
      <<PricePoint(h, 20060), PricePoint(h + 1, 10040)>>,
      <<PricePoint(h, 10049), PricePoint(h + 1, 10040), PricePoint(h + 2, 20040)>>,
      <<PricePoint(h, 10051), PricePoint(h + 1, 10040), PricePoint(h + 2, 20040)>>,
      <<PricePoint(h, 20031), PricePoint(h + 1, 10040), PricePoint(h + 2, 20040)>> }

PricingResponses(h) ==
    {[ok |-> FALSE, body |-> <<>>]} \cup {[ok |-> TRUE, body |-> b] : b \in PriceBodies(h)}

\* parseFloat(x.toFixed(2)) for x >= 0 counted in 0.0001
ToFixed2(x) == ((x + 50) \div 100) * 100

\* Math.min(...values) / Math.max(...values)
getLowest(prices) ==
    CHOOSE v \in {prices[i].netPrice : i \in 1..Len(prices)} :
        \A i \in 1..Len(prices) : v <= prices[i].netPrice

getHighest(prices) ==
    CHOOSE v \in {prices[i].netPrice : i \in 1..Len(prices)} :
        \A i \in 1..Len(prices) : v >= prices[i].netPrice

IndexAtInstant_m(prices, h) ==
    IF \E i \in 1..Len(prices) : prices[i].date = h
    THEN CHOOSE i \in 1..Len(prices) :
            /\ prices[i].date = h
            /\ \A j \in 1..(i - 1) : prices[j].date /= h
    ELSE 1

\* prices.find(price => hour of price = hour of time): the index, 0 when absent
IndexAtInstant(prices, h) ==
    IF \E i \in 1..Len(prices) : prices[i].date = h
    THEN CHOOSE i \in 1..Len(prices) :
            /\ prices[i].date = h
            /\ \A j \in 1..(i - 1) : prices[j].date /= h
    ELSE 0

isPriceAtLowest_m(currentPrice, lowestPrice) == currentPrice = lowestPrice

isPriceAtLowest(currentPrice, lowestPrice) == Abs(currentPrice - lowestPrice) < Epsilon

isPriceAtHighest(currentPrice, highestPrice) == Abs(currentPrice - highestPrice) < Epsilon

\* the triggers updatePricingInformation dispatches without looking at them
AlwaysDispatched ==
    << "price_below_avg", "price_above_avg", "price_at_lowest", "price_at_highest",
       "price_below_avg_today", "price_above_avg_today",
       "price_among_lowest_today", "price_among_highest_today" >>

Dispatches(current, lowest, highest) ==
    AlwaysDispatched
      \o (IF isPriceAtLowest(current, lowest) THEN <<"price_at_lowest_today">> ELSE <<>>)
      \o (IF isPriceAtHighest(current, highest) THEN <<"price_at_highest_today">> ELSE <<>>)

\* updatePricingInformation goes on to publish and dispatch: getPrices has
\* answered, the series is not empty and holds the current hour
PricingPublishes(resp) ==
    /\ resp.ok
    /\ Len(resp.body) > 0
    /\ IndexAtInstant(resp.body, now) /= 0

\* updatePricingInformation after getPrices has answered with resp
ApplyPricing(resp) ==
    IF PricingPublishes(resp)
    THEN LET body == resp.body
             current == body[IndexAtInstant(body, now)].netPrice
         IN  /\ published' = << ToFixed2(current), ToFixed2(getHighest(body)),
                                ToFixed2(getLowest(body)) >>
             /\ dispatched' = Dispatches(current, getLowest(body), getHighest(body))
    ELSE UNCHANGED <<published, dispatched>>

\* history: how the getPrices call ended at hour h
PricingEvent(resp, h) ==
    [kind |-> IF ~resp.ok THEN "throw"
              ELSE IF resp.body = <<>> THEN "empty"
              ELSE IF \A i \in 1..Len(resp.body) : resp.body[i].date /= h THEN "nohour"
              ELSE "found",
     body |-> resp.body,
     answer |-> "none"]

\* history: a request of the backfill was answered with kind
BackfillEvent(kind) == [kind |-> "backfill", body |-> <<>>, answer |-> kind]

(***************************************************************************)
(* OstromHomeDevice                                                        *)
(***************************************************************************)
TimerPending == scheduledUpdate = "pending" \/ orphanTimers > 0

ActiveCycles == {c \in 1..MaxCycles : cycles[c].phase /= "idle"}

\* homey.setTimeout timers fire once: the handle no longer names a pending timer
OneShot_m(handle) == "pending"

OneShot(handle) == "fired"

\* this.lastFetchedHour.equals(DateTime.now().startOf('hour'))
AlreadyFetched_m(last, currentHour) == FALSE

AlreadyFetched(last, currentHour) == last = currentHour

\* this.lastFetchedHour.plus({ hours: 1 }).startOf('hour')
IncrementalStart_m(last) == last

IncrementalStart(last) == last + 1

\* currentValue + incrementalConsumption.reduce(...)
NewTotal_m(currentValue, points) == SumKwh(points)

NewTotal(currentValue, points) == currentValue + SumKwh(points)

\* saturating count for the per-hour history
UpTo2(n) == Min(n + 1, 2)

ScheduleNextUpdate_m(last, handle) ==
    IF last = NoHour \/ handle /= "null"
    THEN /\ scheduledUpdate' = handle
         /\ UNCHANGED orphanTimers
    ELSE /\ scheduledUpdate' = "pending"
         /\ UNCHANGED orphanTimers

\* scheduleNextUpdate: returns at once while lastFetchedHour is unset, else
\* stores the handle of a new timer in scheduledUpdate
ScheduleNextUpdate(last, handle) ==
    IF last = NoHour
    THEN /\ scheduledUpdate' = handle
         /\ UNCHANGED orphanTimers
    ELSE /\ scheduledUpdate' = "pending"
         /\ orphanTimers' = IF handle = "pending" THEN orphanTimers + 1 ELSE orphanTimers

\* an hour passes
Tick ==
    /\ now < MaxHour
    /\ now' = now + 1
    /\ topupsThisHour' = 0
    /\ foldsThisHour' = 0
    /\ lastTopupFolded' = FALSE
    /\ caughtUp' = FALSE
    /\ pricingEvent' = NoEvent
    /\ UNCHANGED <<pureVars, serverVars, usage, endInclusive, homeVars, folded, lastTopup,
                   deletedDuring>>

\* onInit -> initializeTotalUsage -> getUsageSinceStartOfContract: the
\* backfill from the contract's start to the current hour is requested
StartInit ==
    /\ onInitPc = "start"
    /\ ~deleted
    /\ onInitPc' = "backfill"
    /\ initCall' = NewCall(ContractStart, now)
    /\ pricingEvent' = NoEvent
    /\ UNCHANGED <<pureVars, serverVars, upstreamVars, meter, lastFetchedHour, scheduledUpdate,
                   orphanTimers, cycles, deleted, published, dispatched, historyVars>>

BackfillResponse_m ==
    /\ onInitPc = "backfill"
    /\ \E kind \in ResponseKinds :
        LET st == CallStep(initCall, kind) IN
        /\ pricingEvent' = BackfillEvent(kind)
        /\ CASE st.status = "more" ->
                   /\ initCall' = st.call
                   /\ UNCHANGED <<meter, lastFetchedHour, scheduledUpdate, orphanTimers,
                                  onInitPc, dispatched, folded>>
             [] st.status \in {"throw", "nonarray"} ->
                   \* the error document has no reduce(): TypeError
                   /\ onInitPc' = "failed"
                   /\ initCall' = NoCall
                   /\ UNCHANGED <<meter, lastFetchedHour, scheduledUpdate, orphanTimers,
                                  dispatched, folded>>
             [] st.status = "array" /\ Len(st.result) = 0 ->
                   /\ onInitPc' = "pricing"
                   /\ initCall' = NoCall
                   /\ dispatched' = <<>>
                   /\ scheduledUpdate' = "pending"
                   /\ UNCHANGED <<meter, lastFetchedHour, orphanTimers, folded>>
             [] st.status = "array" /\ Len(st.result) > 0 ->
                   /\ meter' = SumKwh(st.result)
                   /\ lastFetchedHour' = st.result[Len(st.result)].date
                   /\ ScheduleNextUpdate(st.result[Len(st.result)].date, scheduledUpdate)
                   /\ folded' = FoldedAfter([h \in Hours |-> 0], st.result)
                   /\ onInitPc' = "pricing"
                   /\ initCall' = NoCall
                   /\ dispatched' = <<>>
    /\ UNCHANGED <<pureVars, serverVars, upstreamVars, cycles, deleted, published, lastTopup,
                   topupsThisHour, foldsThisHour, lastTopupFolded, caughtUp, deletedDuring>>

\* a request of the backfill answers; when the call returns,
\* initializeTotalUsage sets the meter and lastFetchedHour and arms the
\* timer, and onInit goes on to updatePricingInformation
BackfillResponse ==
    /\ onInitPc = "backfill"
    /\ \E kind \in ResponseKinds :
        LET st == CallStep(initCall, kind) IN
        /\ pricingEvent' = BackfillEvent(kind)
        /\ CASE st.status = "more" ->
                   /\ initCall' = st.call
                   /\ UNCHANGED <<meter, lastFetchedHour, scheduledUpdate, orphanTimers,
                                  onInitPc, dispatched, folded>>
             [] st.status \in {"throw", "nonarray"} ->
                   \* the error document has no reduce(): TypeError
                   /\ onInitPc' = "failed"
                   /\ initCall' = NoCall
                   /\ UNCHANGED <<meter, lastFetchedHour, scheduledUpdate, orphanTimers,
                                  dispatched, folded>>
             [] st.status = "array" /\ Len(st.result) = 0 ->
                   /\ onInitPc' = "pricing"
                   /\ initCall' = NoCall
                   /\ dispatched' = <<>>
                   /\ UNCHANGED <<meter, lastFetchedHour, scheduledUpdate, orphanTimers, folded>>
             [] st.status = "array" /\ Len(st.result) > 0 ->
                   /\ meter' = SumKwh(st.result)
                   /\ lastFetchedHour' = st.result[Len(st.result)].date
                   /\ ScheduleNextUpdate(st.result[Len(st.result)].date, scheduledUpdate)
                   /\ folded' = FoldedAfter([h \in Hours |-> 0], st.result)
                   /\ onInitPc' = "pricing"
                   /\ initCall' = NoCall
                   /\ dispatched' = <<>>
    /\ UNCHANGED <<pureVars, serverVars, upstreamVars, cycles, deleted, published, lastTopup,
                   topupsThisHour, foldsThisHour, lastTopupFolded, caughtUp, deletedDuring>>

\* getPrices of onInit's updatePricingInformation answers
InitPricingResponse ==
    /\ onInitPc = "pricing"
    /\ \E resp \in PricingResponses(now) :
        /\ ApplyPricing(resp)
        /\ pricingEvent' = PricingEvent(resp, now)
        /\ onInitPc' = IF resp.ok THEN "done" ELSE "failed"
    /\ UNCHANGED <<pureVars, serverVars, upstreamVars, meter, lastFetchedHour, scheduledUpdate,
                   orphanTimers, initCall, cycles, deleted, historyVars>>

\* the update timer fires and its callback enters updateTotalEnergyConsumption:
\* nothing to do when lastFetchedHour is unset or is the current hour (the
\* callback goes on to updatePricingInformation), else the hours after
\* lastFetchedHour up to the current hour are requested
TimerFire ==
    /\ TimerPending
    /\ \E c \in 1..MaxCycles :
        /\ cycles[c].phase = "idle"
        /\ \A d \in 1..(c - 1) : cycles[d].phase /= "idle"
        /\ \E handleFires \in BOOLEAN :
            /\ IF handleFires
               THEN /\ scheduledUpdate = "pending"
                    /\ scheduledUpdate' = OneShot(scheduledUpdate)
                    /\ UNCHANGED orphanTimers
               ELSE /\ orphanTimers > 0
                    /\ orphanTimers' = orphanTimers - 1
                    /\ UNCHANGED scheduledUpdate
        /\ IF lastFetchedHour = NoHour \/ AlreadyFetched(lastFetchedHour, now)
           THEN /\ cycles' = [cycles EXCEPT ![c] =
                        [IdleCycle EXCEPT !.phase = "pricing", !.startHour = now]]
                /\ dispatched' = <<>>
                /\ lastTopup' = IF lastFetchedHour = NoHour THEN "unset" ELSE "noop"
                /\ topupsThisHour' = UpTo2(topupsThisHour)
                /\ lastTopupFolded' = FALSE
           ELSE /\ cycles' = [cycles EXCEPT ![c] =
                        [IdleCycle EXCEPT !.phase = "consumption",
                                          !.currentValue = meter,
                                          !.call = NewCall(IncrementalStart(lastFetchedHour), now),
                                          !.startHour = now]]
                /\ lastTopup' = "requested"
                /\ UNCHANGED <<dispatched, topupsThisHour, lastTopupFolded>>
    /\ pricingEvent' = NoEvent
    /\ UNCHANGED <<pureVars, serverVars, upstreamVars, meter, lastFetchedHour, onInitPc, initCall,
                   deleted, published, folded, foldsThisHour, caughtUp, deletedDuring>>

\* a request of the top-up answers; when the call returns or throws,
\* updateTotalEnergyConsumption folds the points in (if any) and the callback
\* goes on to updatePricingInformation
ConsumptionResponse ==
    \E c \in 1..MaxCycles, kind \in ResponseKinds :
        /\ cycles[c].phase = "consumption"
        /\ LET st == CallStep(cycles[c].call, kind)
               inHour == cycles[c].startHour = now
               toPricing == [cycles[c] EXCEPT !.phase = "pricing", !.call = NoCall]
           IN
           CASE st.status = "more" ->
                   /\ cycles' = [cycles EXCEPT ![c].call = st.call]
                   /\ UNCHANGED <<meter, lastFetchedHour, dispatched, folded, lastTopup,
                                  topupsThisHour, foldsThisHour, lastTopupFolded, caughtUp>>
             [] st.status \in {"throw", "nonarray"}
                  \/ (st.status = "array" /\ Len(st.result) = 0) ->
                   /\ cycles' = [cycles EXCEPT ![c] = toPricing]
                   /\ dispatched' = <<>>
                   /\ lastTopup' = IF st.status = "array" THEN "empty" ELSE "failed"
                   /\ topupsThisHour' = IF inHour THEN UpTo2(topupsThisHour) ELSE topupsThisHour
                   /\ lastTopupFolded' = IF inHour THEN FALSE ELSE lastTopupFolded
                   /\ UNCHANGED <<meter, lastFetchedHour, folded, foldsThisHour, caughtUp>>
             [] st.status = "array" /\ Len(st.result) > 0 ->
                   /\ meter' = NewTotal(cycles[c].currentValue, st.result)
                   /\ lastFetchedHour' = st.result[Len(st.result)].date
                   /\ folded' = FoldedAfter(folded, st.result)
                   /\ cycles' = [cycles EXCEPT ![c] = toPricing]
                   /\ dispatched' = <<>>
                   /\ lastTopup' = "folded"
                   /\ topupsThisHour' = IF inHour THEN UpTo2(topupsThisHour) ELSE topupsThisHour
                   /\ foldsThisHour' = IF inHour THEN UpTo2(foldsThisHour) ELSE foldsThisHour
                   /\ lastTopupFolded' = IF inHour THEN TRUE ELSE lastTopupFolded
                   /\ caughtUp' = IF inHour /\ st.result[Len(st.result)].date
                                                = LastServedHour(cycles[c].call.end)
                                  THEN TRUE ELSE caughtUp
    /\ pricingEvent' = NoEvent
    /\ UNCHANGED <<pureVars, serverVars, upstreamVars, scheduledUpdate, orphanTimers, onInitPc,
                   initCall, deleted, published, deletedDuring>>

\* getPrices of the callback's updatePricingInformation answers; the
\* callback then always calls scheduleNextUpdate and ends
PricingResponse ==
    \E c \in 1..MaxCycles :
        /\ cycles[c].phase = "pricing"
        /\ \E resp \in PricingResponses(now) :
            /\ ApplyPricing(resp)
            /\ pricingEvent' = PricingEvent(resp, now)
        /\ ScheduleNextUpdate(lastFetchedHour, scheduledUpdate)
        /\ cycles' = [cycles EXCEPT ![c] = IdleCycle]
    /\ UNCHANGED <<pureVars, serverVars, upstreamVars, meter, lastFetchedHour, onInitPc, initCall,
                   deleted, historyVars>>

\* onDeleted: if (this.scheduledUpdate) clearTimeout(this.scheduledUpdate)
OnDeleted ==
    /\ ~deleted
    /\ onInitPc /= "start"
    /\ deleted' = TRUE
    /\ scheduledUpdate' = IF scheduledUpdate = "pending" THEN "cleared" ELSE scheduledUpdate
    /\ cycles' = [c \in 1..MaxCycles |->
                    IF cycles[c].phase /= "idle"
                    THEN [cycles[c] EXCEPT !.stale = TRUE] ELSE cycles[c]]
    /\ deletedDuring' = IF ActiveCycles /= {} THEN "cycle"
                        ELSE IF TimerPending THEN "timer"
                        ELSE IF onInitPc \in {"backfill", "pricing"} THEN "init"
                        ELSE "idle"
    /\ pricingEvent' = NoEvent
    /\ UNCHANGED <<pureVars, serverVars, upstreamVars, meter, lastFetchedHour, orphanTimers,
                   onInitPc, initCall, published, dispatched, folded, lastTopup,
                   topupsThisHour, foldsThisHour, lastTopupFolded, caughtUp>>

DeviceNext ==
    \/ Tick
    \/ StartInit
    \/ BackfillResponse
    \/ InitPricingResponse
    \/ TimerFire
    \/ ConsumptionResponse
    \/ PricingResponse
    \/ OnDeleted

SpecDevice == InitDevice /\ [][DeviceNext]_vars

C5_NoDoubleCount == \A h \in Hours : folded[h] <= 1

\* C6 (as stated): two top-ups executed within one clock hour change the
\* meter exactly once, and the second of them leaves it unchanged.
C6_ExactlyOnce == topupsThisHour >= 2 => (foldsThisHour = 1 /\ ~lastTopupFolded)

\* C6 (amended): once a top-up executed within the current clock hour has
\* folded in a result that reaches the end of the range it requested, the
\* meter stays unchanged for the rest of that hour: a second top-up in the
\* same hour leaves it as it is.
C6_SecondUnchanged == [][(caughtUp /\ now' = now) => meter' = meter]_vars

\* two top-ups in one hour: the first folded a full result in and changed
\* the meter, the second has run and did not
C6_Witness ==
    /\ caughtUp
    /\ topupsThisHour = 2
    /\ foldsThisHour = 1
    /\ ~lastTopupFolded
    /\ lastTopup \in {"empty", "noop"}
    /\ meter > 0

\* C7: a top-up entered while lastFetchedHour is the current hour issues no
\* consumption request and leaves the meter and lastFetchedHour unchanged.
C7_NoOp ==
    [][\A c \in 1..MaxCycles :
          ( /\ cycles[c].phase = "idle"
            /\ cycles'[c].phase /= "idle"
            /\ lastFetchedHour /= NoHour
            /\ lastFetchedHour = now )
          => ( /\ cycles'[c].phase /= "consumption"
               /\ meter' = meter
               /\ lastFetchedHour' = lastFetchedHour )]_vars

\* a top-up has found lastFetchedHour equal to the current hour
C7_Witness ==
    /\ lastTopup = "noop"
    /\ lastFetchedHour = now
    /\ ActiveCycles /= {}

\* C8: after onDeleted (run while the timer was pending or while a cycle's
\* call was in flight) no timer is pending and no further cycle begins.
C8_StoppedAfterDelete ==
    (deleted /\ deletedDuring \in {"timer", "cycle"})
        => (~TimerPending /\ \A c \in ActiveCycles : cycles[c].stale)

\* C9: a cycle that was executing when onDeleted ran modifies neither the
\* meter, nor lastFetchedHour, nor the published prices, and dispatches no
\* trigger.
C9_ResultDiscarded ==
    [][\A c \in 1..MaxCycles :
          (cycles[c].stale /\ cycles'[c] /= cycles[c])
          => ( /\ meter' = meter
               /\ lastFetchedHour' = lastFetchedHour
               /\ published' = published
               /\ (dispatched' = dispatched \/ dispatched' = <<>>) )]_vars

\* C10: at most one timer callback executes at any time, and no timer is
\* pending while one executes.
C10_NoOverlap ==
    /\ Cardinality(ActiveCycles) <= 1
    /\ TimerPending => ActiveCycles = {}

\* a second cycle is in its pricing update, after its top-up has finished
C10_Witness ==
    /\ \E c \in 1..MaxCycles : cycles[c].phase = "pricing"
    /\ lastTopup \in {"folded", "empty", "failed"}
    /\ ~TimerPending

\* timers of the device that are pending: the one scheduledUpdate names and
\* those whose handle has been overwritten
PendingTimers == (IF scheduledUpdate = "pending" THEN 1 ELSE 0) + orphanTimers

\* C11: at most one scheduled-update timer is pending per device in every
\* reachable state: after activation, after every cycle, after failures.
C11_OneTimer == PendingTimers <= 1

\* the timer is pending again after a cycle whose top-up failed
C11_Witness ==
    /\ PendingTimers = 1
    /\ lastTopup = "failed"
    /\ ActiveCycles = {}
    /\ onInitPc \in {"done", "failed"}

\* homey.setTimeout runs the callback of a pending timer, and the calls to
\* the server answer (with data, an error document or an exception)
SpecDeviceLive ==
    /\ InitDevice /\ [][DeviceNext]_vars
    /\ WF_vars(TimerFire)
    /\ WF_vars(ConsumptionResponse)
    /\ WF_vars(PricingResponse)

\* C12: every timer-driven cycle runs the consumption sync, then the pricing
\* update, then arms the next timer, whatever the outcome of either phase;
\* hence, while upstream calls answer, cycles are started again and again
\* unless the device is deleted or its backfill never set lastFetchedHour.
C12_Resilient ==
    /\ [][\A c \in 1..MaxCycles :
            /\ (cycles[c].phase = "idle" /\ cycles'[c].phase /= "idle")
                 => \/ cycles'[c].phase = "consumption"
                    \/ cycles'[c].phase = "pricing" /\ lastTopup' \in {"unset", "noop"}
            /\ (cycles[c].phase = "consumption" /\ cycles'[c].phase /= "consumption")
                 => cycles'[c].phase = "pricing"
            /\ (cycles[c].phase = "pricing" /\ cycles'[c].phase /= "pricing")
                 => cycles'[c].phase = "idle" /\ scheduledUpdate' = "pending"]_vars
    /\ \/ []<><<TimerFire>>_vars
       \/ <>[](deleted \/ lastFetchedHour = NoHour)

\* the timer is pending again after a cycle whose top-up threw and whose
\* pricing update published nothing
C12_Witness ==
    /\ scheduledUpdate = "pending"
    /\ ActiveCycles = {}
    /\ lastTopup = "failed"
    /\ published = <<>>
    /\ onInitPc = "failed"

\* C13: a pricing update whose series of today is empty, or holds no point
\* for the current hour, dispatches no trigger and leaves the published
\* current / highest / lowest prices unchanged.
C13_NoActOnMissing ==
    [][pricingEvent'.kind \in {"empty", "nohour"}
          => (published' = published /\ dispatched' = dispatched)]_vars

\* prices were published earlier, and the latest pricing update found no
\* point for the current hour
C13_Witness ==
    /\ pricingEvent.kind = "nohour"
    /\ published /= <<>>
    /\ published[1] /= ToFixed2(pricingEvent.body[1].netPrice)

\* how many times trigger t occurs in the dispatches ds
TimesDispatched(ds, t) == Cardinality({i \in 1..Len(ds) : ds[i] = t})

\* C14: a pricing update that finds the current hour's price dispatches each
\* of the eight look-ahead / average / ranked triggers exactly once, and
\* price-at-lowest-today iff |current - lowest| < 0.001, price-at-highest-today
\* iff |current - highest| < 0.001, and nothing else.
C14_DispatchPolicy ==
    [][pricingEvent'.kind = "found" =>
        LET body == pricingEvent'.body
            netPrices == {body[i].netPrice : i \in 1..Len(body)}
            current == body[CHOOSE i \in 1..Len(body) :
                              /\ body[i].date = now
                              /\ \A j \in 1..(i - 1) : body[j].date /= now].netPrice
            lowest == CHOOSE v \in netPrices : \A w \in netPrices : v <= w
            highest == CHOOSE v \in netPrices : \A w \in netPrices : v >= w
            nearLowest == current - lowest < 10 /\ lowest - current < 10
            nearHighest == current - highest < 10 /\ highest - current < 10
        IN  /\ \A t \in {"price_below_avg", "price_above_avg", "price_at_lowest",
                         "price_at_highest", "price_below_avg_today",
                         "price_above_avg_today", "price_among_lowest_today",
                         "price_among_highest_today"} :
                    TimesDispatched(dispatched', t) = 1
            /\ TimesDispatched(dispatched', "price_at_lowest_today")
                    = (IF nearLowest THEN 1 ELSE 0)
            /\ TimesDispatched(dispatched', "price_at_highest_today")
                    = (IF nearHighest THEN 1 ELSE 0)
            /\ Len(dispatched') = 8 + (IF nearLowest THEN 1 ELSE 0)
                                    + (IF nearHighest THEN 1 ELSE 0)]_vars

\* the current hour's price lies within 0.001 of the day's lowest without
\* being the lowest, and price-at-lowest-today has been dispatched
C14_Witness ==
    /\ pricingEvent.kind = "found"
    /\ \E i, j \in 1..Len(pricingEvent.body) :
          /\ pricingEvent.body[i].date = now
          /\ pricingEvent.body[i].netPrice > pricingEvent.body[j].netPrice
    /\ TimesDispatched(dispatched, "price_at_lowest_today") = 1
    /\ TimesDispatched(dispatched, "price_at_highest_today") = 0
    /\ TimesDispatched(dispatched, "price_below_avg") = 1

C16_ExchangeIffStale ==
    [][(serverEvent'.kind = "dataBegan")
         => IF ~token \/ clock > tokenExpiresAt
            THEN /\ authInFlight' + QueuedAuth(queue')
                        = authInFlight + QueuedAuth(queue) + 1
                 /\ dataInFlight' = dataInFlight
            ELSE /\ authInFlight' = authInFlight
                 /\ QueuedAuth(queue') = QueuedAuth(queue)
                 /\ reservoir' = reservoir - 1
                 /\ dataInFlight' = dataInFlight + 1]_vars

\* a data request was sent without an exchange at the very second the
\* cached token expires
C16_Witness ==
    /\ token
    /\ clock = tokenExpiresAt
    /\ tokenGrant.at < clock
    /\ serverEvent.kind = "dataBegan"
    /\ dataInFlight > 0
    /\ authInFlight = 0
    /\ QueuedAuth(queue) = 0

\* C17: a rejected token exchange ends the operation that awaited it: no
\* further exchange is attempted and no data request is sent, and the cached
\* token and its expiry stay exactly as they were.
C17_RejectedExchange ==
    [][(serverEvent'.kind = "exchangeRejected") =>
          /\ token' = token
          /\ tokenExpiresAt' = tokenExpiresAt
          /\ authInFlight' = authInFlight - 1
          /\ queue' = queue
          /\ reservoir' = reservoir
          /\ httpInWindow' = httpInWindow
          /\ dataInFlight' = dataInFlight]_vars

\* an exchange was rejected while an expired token was cached, which is kept
C17_Witness ==
    /\ serverEvent.kind = "exchangeRejected"
    /\ token
    /\ clock > tokenExpiresAt

\* C18: the cached token and the cached expiry are both absent or both
\* present, come from the same exchange, and the expiry is that exchange's
\* completion time plus the lifetime it declared.
C18_Wholesale ==
    /\ token <=> tokenExpiresAt /= NoExpiry
    /\ token <=> tokenGrant /= NoGrant
    /\ tokenGrant = expiryGrant
    /\ token => tokenExpiresAt = tokenGrant.at + tokenGrant.expires_in

\* an exchange completed after another one that had begun later or at the
\* same time: it replaced a token that was still fresh
C18_Witness ==
    /\ serverEvent.kind = "exchangeOk"
    /\ serverEvent.replaced
    /\ tokenGrant.at > 0
    /\ tokenGrant.expires_in > 0

\* C19: authenticateIfNeeded is not single-flight: every data operation that
\* finds the token stale runs its own exchange, so there may be as many
\* exchanges as operations in progress, and each exchange that begins takes
\* one unit of the reservoir and issues one request.
C19_NotSingleFlight ==
    /\ [](authInFlight + QueuedAuth(queue) <= Outstanding)
    /\ [][(authInFlight' > authInFlight) =>
             /\ authInFlight' = authInFlight + 1
             /\ httpInWindow' = httpInWindow + 1
             /\ reservoir - reservoir' = startedInWindow' - startedInWindow]_vars

\* two exchanges are in flight at once while no token is cached
C19_Witness ==
    /\ ~token
    /\ authInFlight >= 2
    /\ startedInWindow >= 4

\* C20: a non-success response of a data endpoint makes the operation throw
\* an error that carries the upstream payload; no request is issued again,
\* no exchange is started and the cached token and expiry are unchanged.
C20_DataFailure ==
    [][(serverEvent'.kind = "dataThrew") =>
          /\ serverEvent'.thrown = <<"Failed", serverEvent'.payload>>
          /\ serverEvent'.payload \in ErrorPayloads
          /\ dataInFlight' = dataInFlight - 1
          /\ authInFlight' = authInFlight
          /\ queue' = queue
          /\ reservoir' = reservoir
          /\ httpInWindow' = httpInWindow
          /\ token' = token
          /\ tokenExpiresAt' = tokenExpiresAt]_vars

\* a data request was answered "unauthorized" and the token is still cached
C20_Witness ==
    /\ serverEvent.kind = "dataThrew"
    /\ serverEvent.payload = "unauthorized"
    /\ token

\* a is an initial part of b
IsPrefix(a, b) == Len(a) <= Len(b) /\ SubSeq(b, 1, Len(a)) = a

\* C21: operations that have to wait for budget are kept (never rejected)
\* and begin in the order they were submitted, token exchanges and data
\* operations alike: the queue only loses its head and only grows at its
\* end, and while operations wait no other operation begins before the head.
C21_Fifo ==
    [][/\ \/ IsPrefix(queue, queue')
          \/ queue /= <<>> /\ IsPrefix(Tail(queue), queue')
       /\ (queue /= <<>> /\ startedInWindow' > startedInWindow) =>
             /\ IsPrefix(Tail(queue), queue')
             /\ Head(queue) = "auth" => authInFlight' = authInFlight + 1
             /\ Head(queue) = "data" => serverEvent'.kind = "dataBegan"
       /\ (queue /= <<>> /\ ~HasCapacity(reservoir) /\ reservoir' = reservoir) =>
             IsPrefix(queue, queue')]_vars

\* after a refresh the token exchange that waited first has begun, and the
\* data operation submitted after it still waits behind it
C21_Witness ==
    /\ queue = <<"data">>
    /\ authInFlight = 1
    /\ dataInFlight = 0
    /\ startedInWindow = 1
    /\ httpInWindow = 1
    /\ reservoir = MAX_REQUESTS_PER_MINUTE - 1

(***************************************************************************)
(* SpecChunks: OstromServerClient.getEnergyConsumption on its own, over    *)
(* start and end dates in 0..MaxInstant                                    *)
(***************************************************************************)
\* the answers to a chunk request that do not depend on the recorded usage
ChunkAnswers == ResponseKinds \ {"points"}

\* getEnergyConsumption(contractId, startDate, endDate, resolution) is
\* called and issues its first request
ChunkEnter ==
    /\ chunkCall.status = "idle"
    /\ \E startDate, endDate \in 0..MaxInstant :
        /\ chunkCall' = [status |-> "awaiting", call |-> NewCall(startDate, endDate)]
        /\ chunkLog' = <<RequestRange(NewCall(startDate, endDate))>>
    /\ UNCHANGED <<serverVars, deviceVars, timerCalc, thisPrices, evaluated, compared,
                   conditionContext>>

\* the request in flight answers: the loop issues the next request, or the
\* call returns or throws
ChunkAnswer ==
    /\ chunkCall.status = "awaiting"
    /\ \E kind \in ChunkAnswers :
        LET st == CallStep(chunkCall.call, kind) IN
        IF st.status = "more"
        THEN /\ chunkCall' = [chunkCall EXCEPT !.call = st.call]
             /\ chunkLog' = Append(chunkLog, RequestRange(st.call))
        ELSE /\ chunkCall' = [chunkCall EXCEPT
                                !.status = IF st.status = "throw" THEN "threw" ELSE "returned"]
             /\ UNCHANGED chunkLog
    /\ UNCHANGED <<serverVars, deviceVars, timerCalc, thisPrices, evaluated, compared,
                   conditionContext>>

ChunksNext == ChunkEnter \/ ChunkAnswer

SpecChunks == Init /\ [][ChunksNext]_vars

\* C22: a span of at most one year is one request [start, end]; a longer
\* span is requested as [s, s+1y], [s+1y, s+2y], ... in this order, each
\* chunk starting where the previous one ended, none longer than a year, the
\* last one ending at the overall end: 3 requests for 2.5 years, 2 for 1.5.
C22_Chunking ==
    chunkCall.status /= "idle" =>
        LET s == chunkCall.call.start
            e == chunkCall.call.end
        IN  IF e - s <= YearLen
            THEN chunkLog = << <<s, e>> >>
            ELSE /\ \A k \in 1..Len(chunkLog) :
                        /\ chunkLog[k][1] = s + (k - 1) * YearLen
                        /\ chunkLog[k][2] = (IF s + k * YearLen < e THEN s + k * YearLen ELSE e)
                        /\ chunkLog[k][2] - chunkLog[k][1] <= YearLen
                        /\ chunkLog[k][1] < e
                 /\ chunkCall.status = "returned" =>
                        /\ chunkLog[Len(chunkLog)][2] = e
                        /\ Len(chunkLog) = (e - s + YearLen - 1) \div YearLen

\* a span between two and three years has been fetched with three requests
C22_Witness ==
    /\ chunkCall.status = "returned"
    /\ chunkCall.call.end - chunkCall.call.start > 2 * YearLen
    /\ chunkCall.call.end - chunkCall.call.start < 3 * YearLen
    /\ Len(chunkLog) = 3

\* C23: when a request of the backfill fails (it throws, or answers with an
\* error document), no later chunk is requested, onInit fails, and nothing
\* is committed: the meter is not written, lastFetchedHour stays unset, no
\* timer is armed and no pricing update runs, then or later.
C23_AllOrNothing ==
    /\ [][(pricingEvent'.kind = "backfill" /\ pricingEvent'.answer \in {"throw", "nonarray"})
            => /\ onInitPc' = "failed"
               /\ initCall' = NoCall
               /\ meter' = 0
               /\ lastFetchedHour' = NoHour
               /\ PendingTimers' = 0
               /\ scheduledUpdate' = "null"
               /\ published' = <<>>
               /\ dispatched' = <<>>]_vars
    /\ [][(onInitPc = "failed" /\ lastFetchedHour = NoHour)
            => /\ onInitPc' = "failed"
               /\ UNCHANGED <<initCall, meter, lastFetchedHour, scheduledUpdate,
                              orphanTimers, published, dispatched, cycles>>]_vars

\* the second chunk of a backfill longer than a year has failed after the
\* first chunk had brought points
C23_Witness ==
    /\ pricingEvent.kind = "backfill"
    /\ pricingEvent.answer = "throw"
    /\ onInitPc = "failed"
    /\ now > YearLen
    /\ meter = 0
    /\ \E h \in Hours : usage[h] > 0 /\ h < YearLen

(***************************************************************************)
(* scheduleNextUpdate on its own.  Instants and durations are counted in   *)
(* tenths of a second, relative to H, the first top of the hour after the  *)
(* instant DateTime.now() returns.                                         *)
(***************************************************************************)

\* crypto.randomInt(min, max): min inclusive, max exclusive
randomInt(min, max) == min..(max - 1)

\* Number.prototype.toFixed(0) followed by parseInt, of x tenths: the
\* nearest integer, the larger one of two equally near
ToFixed0(x) == IF x >= 0 THEN (x + 5) \div 10 ELSE -((-x + 5) \div 10)

\* nextRefresh.diff(DateTime.now()).as('seconds'), in tenths, lead tenths
\* before the top of the hour
RefreshDiff(lead, jitter) == lead + 10 * jitter

\* scheduleNextUpdate computes the delay and arms the timer
ScheduleEnter ==
    /\ timerCalc.phase \in {"none", "fired"}
    /\ \E lead \in 1..MaxLead, jitter \in randomInt(MIN_JITTER, MAX_JITTER) :
        timerCalc' = [phase |-> "armed", lead |-> lead, jitter |-> jitter,
                      seconds |-> ToFixed0(RefreshDiff(lead, jitter))]
    /\ UNCHANGED <<serverVars, deviceVars, chunkCall, chunkLog, thisPrices, evaluated, compared,
                   conditionContext>>

\* setTimeout(callback, seconds * 1000): the delay has elapsed
TimerElapse ==
    /\ timerCalc.phase = "armed"
    /\ timerCalc' = [timerCalc EXCEPT !.phase = "fired"]
    /\ UNCHANGED <<serverVars, deviceVars, chunkCall, chunkLog, thisPrices, evaluated, compared,
                   conditionContext>>

ScheduleNext == ScheduleEnter \/ TimerElapse

SpecSchedule == Init /\ [][ScheduleNext]_vars

\* the instant the timer fires, relative to H, in tenths of a second
FireInstant == 10 * timerCalc.seconds - timerCalc.lead

\* C24: every armed timer fires at an instant T with H <= T < H + 30 s, H
\* being the first top of the hour after the moment of arming, and the
\* computed delay is never negative.
C24_FiresInWindow ==
    timerCalc.phase = "fired"
        => /\ 0 <= FireInstant
           /\ FireInstant < 10 * MAX_JITTER
           /\ timerCalc.seconds >= 0

(***************************************************************************)
(* Prices on its own.  A point is [date, netPrice]; date is the hour the   *)
(* point starts at, instants are counted in half hours, prices in model    *)
(* units.  Numbers are binary floating point with MantissaBits significant *)
(* bits, rounded to nearest, ties to even, as JavaScript numbers are with  *)
(* 53 bits.                                                                *)
(***************************************************************************)

RECURSIVE Pow2(_)
Pow2(k) == IF k = 0 THEN 1 ELSE 2 * Pow2(k - 1)

\* the e with 2^e <= v < 2^(e+1), for v >= 1
RECURSIVE Exponent(_)
Exponent(v) == IF v < 2 THEN 0 ELSE 1 + Exponent(v \div 2)

\* the distance between neighbouring numbers around v; every whole number of
\* units below 2^MantissaBits is a number
Quantum(v) ==
    IF v >= 1 /\ Exponent(v) >= MantissaBits - 1
    THEN Pow2(Exponent(v) - (MantissaBits - 1))
    ELSE 1

\* the number nearest to a / b (a >= 0, b > 0), the one with the even
\* mantissa of two equally near
RoundRat(a, b) ==
    LET q == Quantum(a \div b)
        k == a \div (b * q)
        r == a - k * b * q
    IN  IF 2 * r < b * q THEN k * q
        ELSE IF 2 * r > b * q THEN (k + 1) * q
        ELSE IF k % 2 = 0 THEN k * q ELSE (k + 1) * q

\* acc + price
FloatAdd(x, y) == RoundRat(x + y, 1)

\* this.prices.map(price => price.netPrice)
Values(prices) == [i \in 1..Len(prices) |-> prices[i].netPrice]

\* values.reduce((acc, price) => acc + price, 0)
RECURSIVE ReduceSum(_)
ReduceSum(values) ==
    IF Len(values) = 0 THEN 0
    ELSE FloatAdd(ReduceSum(SubSeq(values, 1, Len(values) - 1)), values[Len(values)])

\* getAverage on an instance whose _average is null
getAverage(prices) == RoundRat(ReduceSum(Values(prices)), Len(prices))

\* time.startOf('hour'), of an instant in half hours: the hour
StartOfHour(t) == t \div 2

\* Array.prototype.slice(start, end) for 0 <= start, 0 <= end: the elements
\* at positions start .. end - 1 (counted from 0) that exist
Slice(s, start, end) == SubSeq(s, start + 1, Min(end, Len(s)))

\* new Prices(p) for an array p: throws when p is empty
NewPrices(p) == [ok |-> Len(p) > 0, result |-> IF Len(p) > 0 THEN p ELSE <<>>]

\* a method that throws before building a series
Threw == [ok |-> FALSE, result |-> <<>>]

getPricesForNextNHours_m(prices, t, hours) ==
    LET index == IndexAtInstant(prices, StartOfHour(t)) - 1
    IN  IF index = -1 THEN Threw
        ELSE NewPrices(Slice(prices, index, index + hours))

getPricesForNextNHours(prices, t, hours) ==
    LET index == IndexAtInstant(prices, StartOfHour(t)) - 1
    IN  IF index = -1 THEN Threw
        ELSE NewPrices(Slice(prices, index, hours))

\* the comparator of getNLowest (a.netPrice - b.netPrice) and of getNHighest
\* (b.netPrice - a.netPrice)
Compare(a, b, descending) ==
    IF descending THEN b.netPrice - a.netPrice ELSE a.netPrice - b.netPrice

Insert_m(sorted, p, descending) ==
    LET k == Cardinality({i \in 1..Len(sorted) : Compare(sorted[i], p, descending) < 0})
    IN  SubSeq(sorted, 1, k) \o <<p>> \o SubSeq(sorted, k + 1, Len(sorted))

\* p goes behind every element that does not compare greater than p
Insert(sorted, p, descending) ==
    LET k == Cardinality({i \in 1..Len(sorted) : Compare(sorted[i], p, descending) <= 0})
    IN  SubSeq(sorted, 1, k) \o <<p>> \o SubSeq(sorted, k + 1, Len(sorted))

\* [...this.prices].sort(comparator): Array.prototype.sort is stable
RECURSIVE Sorted(_, _)
Sorted(prices, descending) ==
    IF Len(prices) = 0 THEN <<>>
    ELSE Insert(Sorted(SubSeq(prices, 1, Len(prices) - 1), descending),
                prices[Len(prices)], descending)

getNLowest(prices, n) == NewPrices(Slice(Sorted(prices, FALSE), 0, n))

getNHighest(prices, n) == NewPrices(Slice(Sorted(prices, TRUE), 0, n))

HasPriceAtInstant_m(prices, t) == IndexAtInstant(prices, t) /= 0

\* getPriceAtInstant(time) !== undefined
HasPriceAtInstant(prices, t) == IndexAtInstant(prices, StartOfHour(t)) /= 0

\* minutes since midnight of a point and of a time of day given in half hours
MinutesOfPoint(p) == p.date * 60
MinutesOfTime(t) == (t \div 2) * 60 + (t % 2) * 30

BetweenTimes_m(p, startTime, endTime) ==
    IF MinutesOfTime(startTime) > MinutesOfTime(endTime)
    THEN \/ MinutesOfPoint(p) >= MinutesOfTime(startTime)
         \/ MinutesOfPoint(p) < MinutesOfTime(endTime)
    ELSE /\ MinutesOfPoint(p) >= MinutesOfTime(startTime)
         /\ MinutesOfPoint(p) < MinutesOfTime(endTime)

\* the filter of getPricesBetweenTimes
BetweenTimes(p, startTime, endTime) ==
    IF MinutesOfTime(startTime) > MinutesOfTime(endTime)
    THEN \/ MinutesOfPoint(p) >= MinutesOfTime(startTime)
         \/ MinutesOfPoint(p) <= MinutesOfTime(endTime)
    ELSE /\ MinutesOfPoint(p) >= MinutesOfTime(startTime)
         /\ MinutesOfPoint(p) <= MinutesOfTime(endTime)

RECURSIVE Filter(_, _, _)
Filter(prices, startTime, endTime) ==
    IF Len(prices) = 0 THEN <<>>
    ELSE LET rest == Filter(SubSeq(prices, 1, Len(prices) - 1), startTime, endTime)
             p == prices[Len(prices)]
         IN  IF BetweenTimes(p, startTime, endTime) THEN Append(rest, p) ELSE rest

getPricesBetweenTimes(prices, startTime, endTime) ==
    NewPrices(Filter(prices, startTime, endTime))

\* isPriceAmongLowest / isPriceAmongHighest: ok is FALSE when getNLowest /
\* getNHighest throws
isPriceAmongLowest(prices, rankedHours, t) ==
    LET lowestPrices == getNLowest(prices, rankedHours)
    IN  [ok |-> lowestPrices.ok,
         holds |-> lowestPrices.ok /\ HasPriceAtInstant(lowestPrices.result, t)]

isPriceAmongHighest(prices, rankedHours, t) ==
    LET highestPrices == getNHighest(prices, rankedHours)
    IN  [ok |-> highestPrices.ok,
         holds |-> highestPrices.ok /\ HasPriceAtInstant(highestPrices.result, t)]

\* net prices of the points, in model units
SeriesPrices == {12, 14}

\* the points with the dates in D and the prices f, in the order of their dates
RECURSIVE SeriesOf(_, _)
SeriesOf(D, f) ==
    IF D = {} THEN <<>>
    ELSE LET last == CHOOSE d \in D : \A e \in D : e <= d
         IN  Append(SeriesOf(D \ {last}, f), PricePoint(last, f[last]))

\* the arrays a Prices is built from: hourly points of one day, sorted by date
Series == {SeriesOf(D, f) : D \in SUBSET (0..(MaxLen - 1)), f \in [0..(MaxLen - 1) -> SeriesPrices]}

\* instants and times of day, in half hours
Instants == 0..(2 * MaxLen + 1)

\* the constructor argument (an array, or something that is no array) and the
\* arguments of the methods are drawn
InitPrices ==
    /\ InitServer
    /\ InitNoDevice
    /\ chunkCall = NoChunkCall
    /\ chunkLog = <<>>
    /\ timerCalc = NoTimer
    /\ thisPrices \in {[NoInstance EXCEPT !.prices = p] : p \in Series}
                        \cup {[NoInstance EXCEPT !.array = FALSE]}
    /\ evaluated \in {[NoEvaluation EXCEPT !.at = t, !.n = n] : t \in Instants, n \in 0..MaxN}
    /\ compared = NoComparison
    /\ conditionContext = NoContext

\* what a method call leaves in evaluated
Outcome(op, r) ==
    [NoEvaluation EXCEPT !.op = op, !.at = evaluated.at, !.n = evaluated.n,
                         !.ok = r.ok, !.result = r.result]

PricesUnchanged ==
    UNCHANGED <<serverVars, deviceVars, chunkCall, chunkLog, timerCalc, compared,
                conditionContext>>

Construct_m ==
    /\ thisPrices.built = "no"
    /\ thisPrices' = [thisPrices EXCEPT !.built = IF thisPrices.array THEN "yes" ELSE "threw"]
    /\ evaluated' = Outcome("new", [ok |-> thisPrices.array, result |-> <<>>])
    /\ PricesUnchanged

\* new Prices(prices)
Construct ==
    /\ thisPrices.built = "no"
    /\ LET ok == thisPrices.array /\ Len(thisPrices.prices) /= 0
       IN  /\ thisPrices' = [thisPrices EXCEPT !.built = IF ok THEN "yes" ELSE "threw"]
           /\ evaluated' = Outcome("new", [ok |-> ok, result |-> <<>>])
    /\ PricesUnchanged

CallGetPricesForNextNHours ==
    /\ thisPrices.built = "yes"
    /\ evaluated' = Outcome("getPricesForNextNHours",
                            getPricesForNextNHours(thisPrices.prices, evaluated.at, evaluated.n))
    /\ UNCHANGED thisPrices
    /\ PricesUnchanged

CallGetNLowest ==
    /\ thisPrices.built = "yes"
    /\ evaluated' = Outcome("getNLowest", getNLowest(thisPrices.prices, evaluated.n))
    /\ UNCHANGED thisPrices
    /\ PricesUnchanged

CallGetNHighest ==
    /\ thisPrices.built = "yes"
    /\ evaluated' = Outcome("getNHighest", getNHighest(thisPrices.prices, evaluated.n))
    /\ UNCHANGED thisPrices
    /\ PricesUnchanged

\* getPricesBetweenTimes(startTime, endTime), startTime being the time of day
\* of evaluated.at
CallGetPricesBetweenTimes ==
    /\ thisPrices.built = "yes"
    /\ \E endTime \in Instants :
        evaluated' = [Outcome("getPricesBetweenTimes",
                              getPricesBetweenTimes(thisPrices.prices, evaluated.at, endTime))
                        EXCEPT !.to = endTime]
    /\ UNCHANGED thisPrices
    /\ PricesUnchanged

\* a run listener of a dynamic-window card: state.prices is this series,
\* DateTime.now() is evaluated.at and args.hours is evaluated.n
DynamicWindowListener ==
    /\ thisPrices.built = "yes"
    /\ LET prices == getPricesForNextNHours(thisPrices.prices, evaluated.at, evaluated.n)
       IN  evaluated' =
              IF prices.ok
              THEN [Outcome("dynamicWindow", prices)
                      EXCEPT !.average = getAverage(prices.result),
                             !.lowest = getLowest(prices.result),
                             !.highest = getHighest(prices.result)]
              ELSE Outcome("dynamicWindow", prices)
    /\ UNCHANGED thisPrices
    /\ PricesUnchanged

CallIsPriceAmongLowest ==
    /\ thisPrices.built = "yes"
    /\ LET r == isPriceAmongLowest(thisPrices.prices, evaluated.n, evaluated.at)
       IN  evaluated' = [Outcome("isPriceAmongLowest", [ok |-> r.ok, result |-> <<>>])
                           EXCEPT !.holds = r.holds]
    /\ UNCHANGED thisPrices
    /\ PricesUnchanged

CallIsPriceAmongHighest ==
    /\ thisPrices.built = "yes"
    /\ LET r == isPriceAmongHighest(thisPrices.prices, evaluated.n, evaluated.at)
       IN  evaluated' = [Outcome("isPriceAmongHighest", [ok |-> r.ok, result |-> <<>>])
                           EXCEPT !.holds = r.holds]
    /\ UNCHANGED thisPrices
    /\ PricesUnchanged

PricesNext ==
    \/ Construct
    \/ CallGetPricesForNextNHours
    \/ CallGetNLowest
    \/ CallGetNHighest
    \/ CallGetPricesBetweenTimes
    \/ DynamicWindowListener
    \/ CallIsPriceAmongLowest
    \/ CallIsPriceAmongHighest

SpecPrices == InitPrices /\ [][PricesNext]_vars

\* C25: every Prices instance is non-empty: the constructor throws for an
\* empty or non-array argument, and getPricesForNextNHours, getNLowest,
\* getNHighest and getPricesBetweenTimes throw instead of returning an empty
\* series (getNLowest(0), a time-of-day filter matching no point).
C25_NonEmpty ==
    /\ thisPrices.built = "yes" => (thisPrices.array /\ Len(thisPrices.prices) > 0)
    /\ thisPrices.built = "threw" => (~thisPrices.array \/ Len(thisPrices.prices) = 0)
    /\ evaluated.op = "new" => (evaluated.ok <=> thisPrices.built = "yes")
    /\ (/\ evaluated.op \in {"getPricesForNextNHours", "getNLowest", "getNHighest",
                             "getPricesBetweenTimes"}
        /\ evaluated.ok)
            => Len(evaluated.result) > 0
    /\ evaluated.op \in {"getNLowest", "getNHighest"} /\ evaluated.n = 0 => ~evaluated.ok
    /\ (/\ evaluated.op = "getPricesBetweenTimes"
        /\ \A i \in 1..Len(thisPrices.prices) :
              ~BetweenTimes(thisPrices.prices[i], evaluated.at, evaluated.to))
            => ~evaluated.ok

\* a time-of-day filter that matches no point of the series has thrown
C25_Witness ==
    /\ evaluated.op = "getPricesBetweenTimes"
    /\ ~evaluated.ok
    /\ Len(thisPrices.prices) = MaxLen
    /\ evaluated.at <= evaluated.to

\* the position (counted from 0) of the point of the hour of instant t in
\* this series, -1 when there is none
PositionOf(t) ==
    IF \E i \in 1..Len(thisPrices.prices) : thisPrices.prices[i].date = t \div 2
    THEN (CHOOSE i \in 1..Len(thisPrices.prices) : thisPrices.prices[i].date = t \div 2) - 1
    ELSE -1

\* the points of this series at the positions from .. upto (counted from 0)
\* that exist
PointsAt(from, upto) ==
    [k \in 1..(Min(upto, Len(thisPrices.prices) - 1) - from + 1) |-> thisPrices.prices[from + k]]

\* C26: a dynamic-window listener with hours = N >= 1, run when the current
\* hour is at position i of the series, compares against the average, minimum
\* and maximum of the N points from the current hour on (positions i ..
\* i+N-1, clipped at the end of the series), and does not fail.
C26_LookAhead ==
    (/\ evaluated.op = "dynamicWindow"
     /\ PositionOf(evaluated.at) >= 0
     /\ evaluated.n >= 1)
        => LET i == PositionOf(evaluated.at)
               window == PointsAt(i, i + evaluated.n - 1)
           IN  /\ evaluated.ok
               /\ evaluated.result = window
               /\ evaluated.average = getAverage(window)
               /\ evaluated.lowest = getLowest(window)
               /\ evaluated.highest = getHighest(window)

\* C27: getPricesForNextNHours(fromInstant, count) throws when no point's
\* hour is the hour of fromInstant; otherwise, the match being at position i,
\* it returns exactly the points at positions i .. count-1, and throws the
\* empty-series error when i >= count.
C27_Windowed ==
    evaluated.op = "getPricesForNextNHours"
        => LET i == PositionOf(evaluated.at) IN
           IF i = -1 \/ i >= evaluated.n
           THEN ~evaluated.ok
           ELSE /\ evaluated.ok
                /\ evaluated.result = PointsAt(i, evaluated.n - 1)
                /\ (Len(evaluated.result) = evaluated.n
                        => i = 0 /\ evaluated.n <= Len(thisPrices.prices))

\* a window asked for at the second point, for three hours: it holds the
\* second and third point only
C27_Witness ==
    /\ evaluated.op = "getPricesForNextNHours"
    /\ evaluated.ok
    /\ PositionOf(evaluated.at) = 1
    /\ evaluated.n = 3
    /\ Len(evaluated.result) = 2

\* the place of point i of this series in the order by price (descending or
\* ascending), earlier position first among equal prices, counted from 1
PlaceOf(i, descending) ==
    LET price(k) == thisPrices.prices[k].netPrice
    IN  Cardinality({j \in 1..Len(thisPrices.prices) :
                       \/ IF descending THEN price(j) > price(i) ELSE price(j) < price(i)
                       \/ price(j) = price(i) /\ j < i}) + 1

\* result holds the first n points of this series in that order
IsFirstN(result, n, descending) ==
    /\ Len(result) = Min(n, Len(thisPrices.prices))
    /\ \A k \in 1..Len(result) :
          \E i \in 1..Len(thisPrices.prices) :
              PlaceOf(i, descending) = k /\ result[k] = thisPrices.prices[i]

\* C29: getNLowest(n) / getNHighest(n) return the first n points of a stable
\* sort by net price ascending / descending: equal prices keep their order
\* and a tie at the cut-off goes to the earlier hour; this.prices is not
\* reordered; for n >= the length all points are returned.
C29_StableFirstN ==
    /\ thisPrices.prices \in Series
    /\ (evaluated.op = "getNLowest" /\ evaluated.n >= 1)
          => evaluated.ok /\ IsFirstN(evaluated.result, evaluated.n, FALSE)
    /\ (evaluated.op = "getNHighest" /\ evaluated.n >= 1)
          => evaluated.ok /\ IsFirstN(evaluated.result, evaluated.n, TRUE)
    /\ (evaluated.op \in {"getNLowest", "getNHighest"} /\ evaluated.n >= Len(thisPrices.prices))
          => Len(evaluated.result) = Len(thisPrices.prices)

\* the two cheapest points have the same price and only one is asked for:
\* the earlier hour is returned
C29_Witness ==
    /\ evaluated.op = "getNLowest"
    /\ evaluated.n = 1
    /\ Len(thisPrices.prices) = 3
    /\ thisPrices.prices[1].netPrice > thisPrices.prices[2].netPrice
    /\ thisPrices.prices[2].netPrice = thisPrices.prices[3].netPrice
    /\ evaluated.result = <<thisPrices.prices[2]>>

\* the point of the hour of instant t is among the first n of that order
AmongFirstN(t, n, descending) ==
    \E i \in 1..Len(thisPrices.prices) :
        /\ thisPrices.prices[i].date = t \div 2
        /\ PlaceOf(i, descending) <= n

\* C30: isPriceAmongLowest(prices, n) / isPriceAmongHighest(prices, n) hold
\* exactly when the point of the current hour is one of the n points of
\* getNLowest(n) / getNHighest(n); so they are monotone in n, and true for
\* every n >= the length when the current hour is in the series.
C30_AmongRanked ==
    /\ (evaluated.op = "isPriceAmongLowest" /\ evaluated.n >= 1)
          => /\ evaluated.ok
             /\ evaluated.holds <=> AmongFirstN(evaluated.at, evaluated.n, FALSE)
             /\ evaluated.holds <=>
                    \E k \in 1..Len(getNLowest(thisPrices.prices, evaluated.n).result) :
                        getNLowest(thisPrices.prices, evaluated.n).result[k].date
                            = evaluated.at \div 2
    /\ (evaluated.op = "isPriceAmongHighest" /\ evaluated.n >= 1)
          => /\ evaluated.ok
             /\ evaluated.holds <=> AmongFirstN(evaluated.at, evaluated.n, TRUE)
             /\ evaluated.holds <=>
                    \E k \in 1..Len(getNHighest(thisPrices.prices, evaluated.n).result) :
                        getNHighest(thisPrices.prices, evaluated.n).result[k].date
                            = evaluated.at \div 2
    /\ thisPrices.built = "yes"
          => \A n \in 1..MaxN :
                /\ isPriceAmongLowest(thisPrices.prices, n, evaluated.at).holds
                      => isPriceAmongLowest(thisPrices.prices, n + 1, evaluated.at).holds
                /\ isPriceAmongHighest(thisPrices.prices, n, evaluated.at).holds
                      => isPriceAmongHighest(thisPrices.prices, n + 1, evaluated.at).holds
    /\ (/\ evaluated.op \in {"isPriceAmongLowest", "isPriceAmongHighest"}
        /\ evaluated.n >= Len(thisPrices.prices)
        /\ PositionOf(evaluated.at) >= 0)
          => evaluated.holds

\* the current hour is the dearest of three and is asked for among the two
\* lowest: the condition is false, and it is true among the three lowest
C30_Witness ==
    /\ evaluated.op = "isPriceAmongLowest"
    /\ evaluated.n = 2
    /\ ~evaluated.holds
    /\ Len(thisPrices.prices) = 3
    /\ PositionOf(evaluated.at) >= 0
    /\ evaluated.at % 2 = 1
    /\ isPriceAmongLowest(thisPrices.prices, 3, evaluated.at).holds

(***************************************************************************)
(* getAverage, getLowest and getHighest on one instance, with their memo   *)
(* fields.                                                                 *)
(***************************************************************************)

CallGetAverage ==
    /\ thisPrices.built = "yes"
    /\ thisPrices' = IF thisPrices._average = Null
                     THEN [thisPrices EXCEPT !._average = getAverage(thisPrices.prices)]
                     ELSE thisPrices
    /\ evaluated' = [Outcome("getAverage", [ok |-> TRUE, result |-> <<>>])
                        EXCEPT !.average = thisPrices'._average]
    /\ PricesUnchanged

CallGetLowest ==
    /\ thisPrices.built = "yes"
    /\ thisPrices' = IF thisPrices._lowest = Null
                     THEN [thisPrices EXCEPT !._lowest = getLowest(thisPrices.prices)]
                     ELSE thisPrices
    /\ evaluated' = [Outcome("getLowest", [ok |-> TRUE, result |-> <<>>])
                        EXCEPT !.lowest = thisPrices'._lowest]
    /\ PricesUnchanged

CallGetHighest ==
    /\ thisPrices.built = "yes"
    /\ thisPrices' = IF thisPrices._highest = Null
                     THEN [thisPrices EXCEPT !._highest = getHighest(thisPrices.prices)]
                     ELSE thisPrices
    /\ evaluated' = [Outcome("getHighest", [ok |-> TRUE, result |-> <<>>])
                        EXCEPT !.highest = thisPrices'._highest]
    /\ PricesUnchanged

StatsNext ==
    \/ Construct
    \/ CallGetAverage
    \/ CallGetLowest
    \/ CallGetHighest

SpecStats == InitPrices /\ [][StatsNext]_vars

\* C28: for every non-empty series getHighest() >= getAverage() >=
\* getLowest(), and a repeated call returns the value of the first one.
C28_Ordered ==
    /\ [](thisPrices._average /= Null /\ thisPrices._lowest /= Null
            /\ thisPrices._highest /= Null
            => /\ thisPrices._highest >= thisPrices._average
               /\ thisPrices._average >= thisPrices._lowest)
    /\ [][/\ (evaluated'.op = "getAverage" /\ thisPrices._average /= Null)
                => evaluated'.average = thisPrices._average
          /\ (evaluated'.op = "getLowest" /\ thisPrices._lowest /= Null)
                => evaluated'.lowest = thisPrices._lowest
          /\ (evaluated'.op = "getHighest" /\ thisPrices._highest /= Null)
                => evaluated'.highest = thisPrices._highest]_vars

(***************************************************************************)
(* isPriceBelowAverage and isPriceAboveAverage on their own.  Prices are   *)
(* whole numbers of model units and the arithmetic is exact: a threshold   *)
(* is kept as a number of hundredths of a unit.                            *)
(***************************************************************************)

ComparedPrices == (-MaxPrice)..MaxPrice

Percentages == {25 * k : k \in 0..MaxQuarter}

isPriceBelowAverage_m(currentPrice, averagePrice, percentage) ==
    LET threshold == averagePrice * (100 - percentage)
    IN  100 * currentPrice < threshold

\* threshold = averagePrice * (1 - percentage / 100), in hundredths
isPriceBelowAverage(currentPrice, averagePrice, percentage) ==
    LET threshold == averagePrice * (100 - percentage)
    IN  100 * currentPrice <= threshold

\* threshold = averagePrice * (1 + percentage / 100), in hundredths
isPriceAboveAverage(currentPrice, averagePrice, percentage) ==
    LET threshold == averagePrice * (100 + percentage)
    IN  100 * currentPrice >= threshold

InitCompare ==
    /\ InitServer
    /\ InitNoDevice
    /\ chunkCall = NoChunkCall
    /\ chunkLog = <<>>
    /\ timerCalc = NoTimer
    /\ thisPrices = NoInstance
    /\ evaluated = NoEvaluation
    /\ conditionContext = NoContext
    /\ compared \in {[NoComparison EXCEPT !.currentPrice = c, !.averagePrice = a,
                                          !.percentage = p] :
                        c \in ComparedPrices, a \in ComparedPrices, p \in Percentages}

CallIsPriceBelowAverage ==
    /\ compared' = [compared EXCEPT
                      !.op = "isPriceBelowAverage",
                      !.holds = isPriceBelowAverage(compared.currentPrice,
                                                    compared.averagePrice,
                                                    compared.percentage)]
    /\ UNCHANGED <<serverVars, deviceVars, chunkCall, chunkLog, timerCalc, thisPrices,
                   evaluated, conditionContext>>

CallIsPriceAboveAverage ==
    /\ compared' = [compared EXCEPT
                      !.op = "isPriceAboveAverage",
                      !.holds = isPriceAboveAverage(compared.currentPrice,
                                                    compared.averagePrice,
                                                    compared.percentage)]
    /\ UNCHANGED <<serverVars, deviceVars, chunkCall, chunkLog, timerCalc, thisPrices,
                   evaluated, conditionContext>>

CompareNext == CallIsPriceBelowAverage \/ CallIsPriceAboveAverage

SpecCompare == InitCompare /\ [][CompareNext]_vars

C39_Exclusive ==
    (compared.op /= "none" /\ compared.percentage > 0)
        => ~(/\ isPriceBelowAverage(compared.currentPrice, compared.averagePrice,
                                    compared.percentage)
             /\ isPriceAboveAverage(compared.currentPrice, compared.averagePrice,
                                    compared.percentage))

\* C32: getPricesBetweenTimes(start, end) keeps exactly the points whose
\* minute of the day m has start <= m <= end when start <= end, and m >= start
\* or m <= end when start > end, both bounds inclusive, in the original order.
C32_Between ==
    (evaluated.op = "getPricesBetweenTimes" /\ evaluated.ok)
        => LET start == 30 * evaluated.at
               end == 30 * evaluated.to
               m(i) == 60 * thisPrices.prices[i].date
               kept == {i \in 1..Len(thisPrices.prices) :
                          IF start <= end THEN start <= m(i) /\ m(i) <= end
                          ELSE m(i) >= start \/ m(i) <= end}
           IN  /\ Len(evaluated.result) = Cardinality(kept)
               /\ \A i \in kept :
                     \E k \in 1..Len(evaluated.result) :
                         evaluated.result[k] = thisPrices.prices[i]
               /\ \A k \in 1..(Len(evaluated.result) - 1) :
                     evaluated.result[k].date < evaluated.result[k + 1].date

\* a range running past midnight, from the hour of the last point to the
\* hour of the first: both are kept, the one in between is not
C32_Witness ==
    /\ evaluated.op = "getPricesBetweenTimes"
    /\ evaluated.ok
    /\ Len(thisPrices.prices) = 3
    /\ evaluated.at = 2 * thisPrices.prices[3].date
    /\ evaluated.to = 2 * thisPrices.prices[1].date
    /\ evaluated.result = <<thisPrices.prices[1], thisPrices.prices[3]>>

(***************************************************************************)
(* SpecServerLive: Bottleneck starts the head of its queue as soon as the  *)
(* reservoir allows it, and its refresh timer keeps firing.                *)
(***************************************************************************)
SpecServerLive == SpecServer /\ WF_vars(Drain) /\ WF_vars(Refresh)

ContextAfter(resp) ==
    IF resp.ok /\ Len(resp.body) > 0
    THEN [currentPrices |-> resp.body,
          currentPrice |-> IF IndexAtInstant(resp.body, now) /= 0
                           THEN resp.body[IndexAtInstant(resp.body, now)]
                           ELSE conditionContext.currentPrice]
    ELSE conditionContext

\* updatePricingInformation runs and getPrices answers with resp
ContextUpdate ==
    /\ \E resp \in PricingResponses(now) :
        /\ ApplyPricing(resp)
        /\ conditionContext' = ContextAfter(resp)
        /\ pricingEvent' = PricingEvent(resp, now)
    /\ UNCHANGED <<serverVars, upstreamVars, meter, lastFetchedHour, scheduledUpdate,
                   orphanTimers, onInitPc, initCall, cycles, deleted, historyVars,
                   chunkCall, chunkLog, timerCalc, thisPrices, evaluated, compared>>

\* the next hour begins
ContextTick ==
    /\ now < MaxHour
    /\ now' = now + 1
    /\ pricingEvent' = NoEvent
    /\ UNCHANGED <<serverVars, usage, endInclusive, homeVars, historyVars, pureVars>>

ContextNext == ContextUpdate \/ ContextTick

SpecContext == Init /\ [][ContextNext]_vars

\* C34: between cycles the current price held for condition evaluation is a
\* point of the series held for condition evaluation, also after a cycle in
\* which the current hour was missing from the fetched series.
C34_ContextConsistent ==
    conditionContext.currentPrice /= NoPoint
        => \E i \in 1..Len(conditionContext.currentPrices) :
              conditionContext.currentPrices[i] = conditionContext.currentPrice

\* C35: a top-up whose fetch fails or brings an empty or non-array result
\* leaves the meter and lastFetchedHour as they are; the two are written
\* only together, after a non-empty result, lastFetchedHour getting the hour
\* of the last point returned.
C35_TopupFrame ==
    /\ [][\A c \in 1..MaxCycles :
            (cycles[c].phase = "consumption" /\ cycles'[c].phase = "pricing")
              => IF lastTopup' \in {"failed", "empty"}
                 THEN meter' = meter /\ lastFetchedHour' = lastFetchedHour
                 ELSE /\ lastTopup' = "folded"
                      /\ \E kind \in ResponseKinds :
                          LET st == CallStep(cycles[c].call, kind) IN
                          /\ st.status = "array"
                          /\ Len(st.result) > 0
                          /\ lastFetchedHour' = st.result[Len(st.result)].date
                          /\ meter' = cycles[c].currentValue + SumKwh(st.result)]_vars
    /\ [][(onInitPc /= "backfill"
            /\ (meter' /= meter \/ lastFetchedHour' /= lastFetchedHour))
              => /\ lastTopup' = "folded"
                 /\ \E c \in 1..MaxCycles :
                       cycles[c].phase = "consumption" /\ cycles'[c].phase = "pricing"]_vars

\* a top-up has just failed on a device whose meter is above zero: the
\* hour it asked for is still to be fetched
C35_Witness ==
    /\ lastTopup = "failed"
    /\ meter > 0
    /\ lastFetchedHour /= NoHour
    /\ lastFetchedHour < now
    /\ \E c \in 1..MaxCycles : cycles[c].phase = "pricing"

C37_NoActivationOverlap == ~(onInitPc = "pricing" /\ ActiveCycles /= {})

\* C38: a timer is pending only if lastFetchedHour is set: when the backfill
\* returns no points, onInit goes on without writing the meter and without
\* arming a timer, and no timer-driven cycle ever runs for the device.
C38_NoTimerWhenUnset ==
    /\ [](lastFetchedHour = NoHour
            => PendingTimers = 0 /\ ActiveCycles = {} /\ meter = 0)
    /\ [][(pricingEvent'.kind = "backfill" /\ onInitPc' = "pricing"
             /\ lastFetchedHour' = NoHour)
            => meter' = meter /\ PendingTimers' = 0 /\ scheduledUpdate' = "null"]_vars
    /\ [][lastFetchedHour = NoHour /\ onInitPc \in {"done", "failed"}
            => UNCHANGED <<lastFetchedHour, meter, scheduledUpdate, orphanTimers, cycles>>]_vars

\* onInit has completed after an empty backfill, with prices published, and
\* an hour has passed since
C38_Witness ==
    /\ onInitPc = "done"
    /\ lastFetchedHour = NoHour
    /\ published /= <<>>
    /\ now >= 1
    /\ ~deleted

====
